---- MODULE Spec2Model ----
(***************************************************************************)
(* State-machine model of the Vim debug adapter (src/src/DebugSession.ts)  *)
(* and of the in-Vim hook it talks to (src/unnamed/part_000, nub.vim).     *)
(*                                                                         *)
(* The adapter is a single-threaded, event-driven Node process.  An editor *)
(* request handler or a socket callback runs to its first await (or to its *)
(* end) without interleaving.  The continuation of an await is a microtask:*)
(* it runs when the callback that resolved the promise has returned, and   *)
(* readline hands every line of a chunk to its listener before that.  One  *)
(* action of the model is therefore one callback, or one run of the queued *)
(* continuations, and no other callback than the next line of the chunk    *)
(* comes between a resolve and the continuation it queued.                 *)
(***************************************************************************)
EXTENDS Integers, Sequences, FiniteSets, TLC

\* ------------------------------------------------------------------ bounds
\* Largest number of request ids the model lets requestFromVim stamp.
MaxId == 2
\* Largest number of records in flight from the adapter to the hook.
MaxQueue == 2
\* Largest number of request ids stamped when the peer is the hook.
MaxHookId == 2
\* Largest number of lines of the hook that the adapter has not read yet.
MaxUnread == 2
\* Largest number of lines the Vims of a run send.
MaxSends == 3
\* Largest envelope id the hook uses for its own long-poll requests.
MaxEnvelope == 2
\* Largest line number of a breakpoint.
MaxLine == 2
\* Largest number of entries of the variable reference table.
MaxRefs == 14
\* Largest number of requests of the editor that wait for Vim at one time.
MaxPending == 2
\* The same, with the hook as the peer.
MaxHookPending == 1
\* Largest number of servers the adapter has made when the peer is the hook.
MaxHookServers == 1
\* The ports the editor names in launch and attach when the peer is the hook
\* (with one server, a second port gives the same runs under another number).
MaxHookPorts == 1
\* The bounds of the specification of the breakpoint exchange with the hook:
\* request ids, records in flight, lines sent by Vim, line numbers.
WideHookId == 5
WideQueue == 3
WideSends == 6
WideLine == 3

\* ------------------------------------------------------------- value sets
\* The port of a launch or attach request: args.port || DEFAULT_PORT.
DEFAULT_PORT == 4321
Ports == {DEFAULT_PORT, DEFAULT_PORT + 1}

\* args.source.path of a setBreakpoints request: a name as Vim lists it, and a
\* name with a blank at its end.
Files == {"a.vim ", "b.vim"}
Lines == 1..MaxLine
EnvelopeIds == 1..MaxEnvelope
SteppingCommands == {"continue", "next", "stepIn", "stepOut"}

\* Absent values, written so that records keep one shape.
NoId == -1
NoString == "undefined"

\* this.vim when it is undefined.
NoSocket == NoId

\* Message received by onVimData: vim_msg[0] is id, vim_msg[1] the payload.
\* form is "ok" for a line that parses to a two-element array, "notjson" for a
\* line JSON.parse rejects and "notpair" for JSON that has no payload at [1];
\* hasArgs is FALSE when the payload has no Arguments member; fields lists the
\* members of Arguments that the handlers read.
VimRecord(form, id, type, fn, hasArgs, rid, fields, frames) ==
    [form |-> form, id |-> id, Message_type |-> type, Function |-> fn,
     hasArgs |-> hasArgs, request_id |-> rid, fields |-> fields, frames |-> frames]

\* Record written by writeToVim: [ref, payload] or the push [mode, cmd].
WireRecord(ref, mode, type, fn, cmd, rid, file, line, level, scope) ==
    [ref |-> ref, mode |-> mode, Message_type |-> type, Function |-> fn,
     Command |-> cmd, request_id |-> rid, file |-> file, line |-> line,
     stack_level |-> level, scope |-> scope]

\* The command slot when no long-poll is outstanding (undefined in the source).
NoRequest == [id |-> NoId, Function |-> NoString]

VARIABLES
    server,               \* ports on which a server of attachToVim listens
    launching,            \* runInTerminalRequest calls whose callback has not run
    vim,                  \* this.vim: the port of the connection, or NoSocket
    connections,          \* ports of the connections that are open
    vim_command_request,  \* the command slot: [id, Function] or NoRequest
    next_request_id,      \* this.next_request_id
    vim_requests,         \* Map request_id -> promise (by promise number)
    did_start_vim,        \* this.did_start_vim
    var_refs,             \* this.var_refs
    promises,             \* pending promises: number -> [request_id, Function]
    npromises,            \* promises created so far (identity of the next one)
    awaiting,             \* suspended async handlers: what they wait for
    ready,                \* handlers whose await is fulfilled, continuation queued
    crashed,              \* the process has ended on an uncaught error
    sentIds,              \* every request_id stamped so far, in order, and whether
                          \* a socket was there to take the request
    toVim,                \* records written to the socket that Vim has not handled yet
    fromVim,              \* lines the hook has sent that the adapter has not read yet
    breakpoints,          \* Vim's breakpoint registry: the [file, line] pairs that
                          \* have an entry
    hookUp,               \* Vim's end of the channel is open
    hookPoll,             \* the long-poll the hook is blocked in, or NoRequest
    hookSeq,              \* last message id the hook's channel has used
    hookRead,             \* how many records at the front of toVim are in Vim's
                          \* message queue: parsed off the socket, not handled
    hookUnread,           \* Vim has gone and left records of the adapter unread
    hookSent,             \* the lines the Vims of the run have sent
    hookLink              \* the port Vim's channel is connected to

bridgeVars == <<server, launching, vim, connections, vim_command_request,
                next_request_id, vim_requests, did_start_vim, var_refs, promises,
                npromises, awaiting, ready, crashed, sentIds>>
hookVars == <<toVim, fromVim, breakpoints, hookUp, hookPoll, hookSeq, hookRead,
              hookUnread, hookSent, hookLink>>
vars == <<bridgeVars, hookVars>>

\* ------------------------------------------------- editor-facing messages
Response(cmd, body) ==
    [type |-> "response", name |-> cmd, success |-> TRUE, code |-> 0, body |-> body]

ErrorResponse(cmd, code) ==
    [type |-> "response", name |-> cmd, success |-> FALSE, code |-> code, body |-> <<>>]

Event(name) ==
    [type |-> "event", name |-> name, success |-> TRUE, code |-> 0, body |-> <<>>]

\* ----------------------------------------------------------- the session
\* The session object as a record, together with what one callback did:
\* written are the records it wrote to the socket, out the responses and events
\* it sent to the editor, resolveCalls its calls of a pending request's
\* resolve, thrown the error it ended with (none; sync: an exception out of a
\* request handler; async: a rejected handler promise; event: an exception
\* out of a socket listener; error: an 'error' event nobody listens for).
\* Every handler below maps the session it starts in to the session it leaves.
Session(srv, lnch, v, conns, slot, nid, map, started, refs, ps, np, aw, rdy, dead, ids) ==
    [server |-> srv, launching |-> lnch, vim |-> v, connections |-> conns,
     vim_command_request |-> slot, next_request_id |-> nid, vim_requests |-> map,
     did_start_vim |-> started, var_refs |-> refs, promises |-> ps,
     npromises |-> np, awaiting |-> aw, ready |-> rdy, crashed |-> dead,
     sentIds |-> ids,
     written |-> <<>>, out |-> <<>>, resolveCalls |-> <<>>, thrown |-> "none"]

\* The session after construction (the field initialisers of VimDebugSession).
NewSession ==
    Session({}, 0, NoSocket, {}, NoRequest, 0, [k \in {} |-> 0], FALSE, <<>>,
            [k \in {} |-> [request_id |-> 0, Function |-> NoString]], 0, {}, <<>>,
            FALSE, <<>>)

\* The session as the variables hold it.
This ==
    Session(server, launching, vim, connections, vim_command_request,
            next_request_id, vim_requests, did_start_vim, var_refs, promises,
            npromises, awaiting, ready, crashed, sentIds)

\* The session as the next callback finds it: what the last one did is gone.
After(s) ==
    [s EXCEPT !.written = <<>>, !.out = <<>>, !.resolveCalls = <<>>,
              !.thrown = "none"]

\* sendResponse, sendErrorResponse, sendEvent.
Send(s, msg) == [s EXCEPT !.out = Append(@, msg)]

\* An error thrown.  An exception inside a request handler (kind sync) ends
\* the handler there.  A rejected handler promise (kind async) ends the
\* handler; what becomes of the process is node's choice, see
\* UnhandledRejection.  An exception out of a socket listener (kind event) and
\* an 'error' event without a listener (kind error) end the process.
Throw(s, kind) ==
    CASE kind \in {"event", "error"} -> [s EXCEPT !.thrown = kind, !.crashed = TRUE]
      [] OTHER -> [s EXCEPT !.thrown = kind]

\* An exception that leaves the handler of the request name, a handler that
\* is no async function: dispatchRequest of the base class DebugSession
\* (package vscode-debugadapter) calls the handler inside try/catch and
\* answers the request with the error response 1104.
Caught(s, name) == Send(Throw(s, "sync"), ErrorResponse(name, 1104))

\* The process that has ended: nothing of the session is left.
Gone(s) ==
    [s EXCEPT !.server = {}, !.launching = 0, !.vim = NoSocket, !.connections = {},
              !.vim_command_request = NoRequest, !.next_request_id = 0,
              !.vim_requests = [k \in {} |-> 0], !.did_start_vim = FALSE,
              !.var_refs = <<>>,
              !.promises = [k \in {} |-> [request_id |-> 0, Function |-> NoString]],
              !.npromises = 0, !.awaiting = {}, !.ready = <<>>, !.sentIds = <<>>,
              !.crashed = TRUE]

\* The ways a callback that left the session e can end.  When the promise of
\* an async handler was rejected and nobody handles the rejection, node ends
\* the process once the callback has returned (--unhandled-rejections=throw,
\* the default since node 15) or only warns (older versions, or =warn).
UnhandledRejection(e) ==
    IF e.crashed THEN {Gone(e)}
    ELSE IF e.thrown = "async" THEN {e, Gone(e)}
    ELSE {e}

\* A suspended async handler: the request it will answer and the promises it
\* still waits for.
Suspended(cmd, file, lines, frameId, waits) ==
    [command |-> cmd, file |-> file, lines |-> lines, frameId |-> frameId,
     waits |-> waits]

\* --------------------------------------------------------------- writeToVim
\* The payloads the adapter writes.
SlotReply(id, fn, cmd) ==
    WireRecord(id, NoString, "Reply", fn, cmd, NoId, NoString, 0, NoId, NoString)

Push(mode, cmd) ==
    WireRecord(NoId, mode, NoString, NoString, cmd, NoId, NoString, 0, NoId, NoString)

Request(fn, file, line, level, scope) ==
    WireRecord(0, NoString, "Request", fn, NoString, NoId, file, line, level, scope)

\* writeToVim: this.vim!.write( data ); with this.vim undefined it throws.
CanWrite(s) == s.vim # NoSocket

writeToVim(s, obj) == [s EXCEPT !.written = Append(@, obj)]

\* A reply that leaves the slot as it was.
writeResponseKeepingSlot(s, fn, cmd) ==
    writeToVim(s, SlotReply(s.vim_command_request.id, fn, cmd))

\* writeResponseToVim: write [ slot id, response ], then empty the slot.
writeResponseToVim(s, fn, cmd) ==
    [writeToVim(s, SlotReply(s.vim_command_request.id, fn, cmd))
     EXCEPT !.vim_command_request = NoRequest]

writeCommandToVim(s, mode, cmd) == writeToVim(s, Push(mode, cmd))

\* ----------------------------------------------------------- requestFromVim
\* A counter that is never advanced: every request gets the same id.
NextRequestIdStuck(n) == n

\* this.next_request_id++ : the value the counter takes after stamping n.
NextRequestId(n) == n + 1

\* this.vim_requests.set( id, { resolve, reject } ): p is the promise.
Register(map, rid, p) ==
    [k \in DOMAIN map \cup {rid} |-> IF k = rid THEN p ELSE map[k]]

\* requestFromVim: stamp the id, register the pending entry, then write.  With no
\* socket the write throws inside the promise executor: the promise is rejected
\* at once, the id stays consumed and the map entry stays behind.
requestFromVim(s, request) ==
    LET rid == s.next_request_id
        p == s.npromises
        stamped == [request EXCEPT !.request_id = rid]
        r == [s EXCEPT !.next_request_id = NextRequestId(rid),
                       !.vim_requests = Register(@, rid, p),
                       !.npromises = p + 1,
                       !.sentIds = Append(@, [id |-> rid, sent |-> CanWrite(s)])]
    IN  IF CanWrite(s)
        THEN writeToVim([r EXCEPT !.promises =
                            [q \in DOMAIN @ \cup {p} |->
                                IF q = p
                                THEN [request_id |-> rid, Function |-> request.Function]
                                ELSE @[q]]],
                        stamped)
        ELSE r

RECURSIVE requestAll(_, _)
requestAll(s, reqs) ==
    IF reqs = <<>> THEN s
    ELSE requestAll(requestFromVim(s, Head(reqs)), Tail(reqs))

\* An async handler up to its await: it sends reqs and suspends on their
\* promises.  When the writes threw, the await throws and the handler's own
\* promise is rejected with nobody listening: no response is sent.
AwaitRequests(s, cmd, file, lines, frameId, reqs) ==
    LET r == requestAll(s, reqs)
    IN  IF CanWrite(s)
        THEN [r EXCEPT !.awaiting =
                 @ \cup {Suspended(cmd, file, lines, frameId,
                                   (s.npromises)..(r.npromises - 1))}]
        ELSE Throw(r, "async")

\* ------------------------------------------------ launch, attach, connection
initializeRequest(s) == Send(s, Response("initialize", <<>>))

\* attachToVim: create a server and listen on the port.  Nothing looks whether
\* a server of an earlier launch or attach listens there: then listen fails
\* with EADDRINUSE, an 'error' event of the server that has no listener.
attachToVim(s, port) ==
    IF port \in s.server THEN Throw(s, "error")
    ELSE [s EXCEPT !.server = @ \cup {port}]

\* launchRequest: attachToVim, then runInTerminalRequest whose callback runs later.
launchRequest(s, port) == [attachToVim(s, port) EXCEPT !.launching = @ + 1]

\* The callback of runInTerminalRequest.
runInTerminalResponse(s) ==
    Send([s EXCEPT !.launching = @ - 1, !.did_start_vim = TRUE],
         Response("launch", <<>>))

attachRequest(s, port) ==
    Send([attachToVim(s, port) EXCEPT !.did_start_vim = FALSE],
         Response("attach", <<>>))

\* The connection listener of net.createServer, for the server of the port:
\* this.vim = c, and c gets its line and close listeners.
onConnection(s, port) ==
    [s EXCEPT !.vim = port, !.connections = @ \cup {port}]

\* onVimConnectionClosed: the pending requests are left as they are, and
\* this.vim is forgotten whichever connection has closed.
onVimConnectionClosed(s) ==
    [Send(s, Event("terminated"))
     EXCEPT !.vim = NoSocket, !.did_start_vim = FALSE,
            !.vim_command_request = NoRequest]

\* The connection of the port closes: its close listener runs.
Closed(s, port) == [onVimConnectionClosed(s) EXCEPT !.connections = @ \ {port}]

\* ------------------------------------------------------- editor requests
setBreakPointsRequest(s, file, lines) ==
    AwaitRequests(s, "setBreakpoints", file, lines, NoId,
                  <<Request("clearLineBreakpoints", file, 0, NoId, NoString)>>
                  \o [i \in 1..Len(lines) |->
                        Request("setLineBreakpoint", file, lines[i], NoId, NoString)])

setFunctionBreakPointsRequest(s) == Send(s, Response("setFunctionBreakpoints", <<>>))

threadsRequest(s) == Send(s, Response("threads", <<0>>))

stackTraceRequest(s) ==
    AwaitRequests(s, "stackTrace", NoString, <<>>, NoId,
                  <<Request("stackTrace", NoString, 0, NoId, NoString)>>)

scopesRequest(s, frameId) ==
    AwaitRequests(s, "scopes", NoString, <<>>, frameId,
                  <<Request("stackTrace", NoString, 0, NoId, NoString)>>)

\* variablesRequest: var_refs[ handle ] is undefined for a handle outside the
\* table, and reading its stack_level throws before anything is sent.
variablesRequest(s, handle) ==
    IF handle + 1 \in DOMAIN s.var_refs
    THEN AwaitRequests(s, "variables", NoString, <<>>, NoId,
                       <<Request("variables", NoString, 0,
                                 s.var_refs[handle + 1].stack_level,
                                 s.var_refs[handle + 1].scope)>>)
    ELSE Throw(s, "async")

evaluateRequest(s, repl, frameId) ==
    AwaitRequests(s, "evaluate", NoString, <<>>, NoId,
                  <<Request(IF repl THEN "execute" ELSE "evaluate",
                            NoString, 0, frameId, NoString)>>)

\* A configurationDone that answers the Initialize long-poll as soon as the
\* request comes, open slot or not.
configurationDoneUnchecked(s) ==
    IF ~CanWrite(s) THEN Caught(s, "configurationDone")
    ELSE Send(writeResponseToVim(s, "Initialize", NoString),
              Response("configurationDone", <<>>))

configurationDoneRequest(s) ==
    IF s.vim_command_request = NoRequest
    THEN Send(s, ErrorResponse("configurationDone", -200))
    ELSE IF s.vim_command_request.Function # "Initialize"
    THEN Send(s, ErrorResponse("configurationDone", -201))
    ELSE IF ~CanWrite(s) THEN Caught(s, "configurationDone")
    ELSE Send(writeResponseToVim(s, s.vim_command_request.Function, NoString),
              Response("configurationDone", <<>>))

\* A vimCommand that answers whatever long-poll is open.
vimCommandAnySlot(s, name, cmd) ==
    IF s.vim_command_request = NoRequest
    THEN Send(s, ErrorResponse(name, -100))
    ELSE IF ~CanWrite(s) THEN Caught(s, name)
    ELSE Send(writeResponseToVim(s, s.vim_command_request.Function, cmd),
              Response(name, <<>>))

vimCommand(s, name, cmd) ==
    IF s.vim_command_request = NoRequest
    THEN Send(s, ErrorResponse(name, -100))
    ELSE IF s.vim_command_request.Function # "GetCommand"
    THEN Send(s, ErrorResponse(name, -101))
    ELSE IF ~CanWrite(s) THEN Caught(s, name)
    ELSE Send(writeResponseToVim(s, s.vim_command_request.Function, cmd),
              Response(name, <<>>))

continueRequest(s) == vimCommand(s, "continue", "cont")

nextRequest(s) == vimCommand(s, "next", "next")

stepInRequest(s) == vimCommand(s, "stepIn", "step")

stepOutRequest(s) == vimCommand(s, "stepOut", "finish")

steppingRequest(s, name) ==
    CASE name = "continue" -> continueRequest(s)
      [] name = "next" -> nextRequest(s)
      [] name = "stepIn" -> stepInRequest(s)
      [] name = "stepOut" -> stepOutRequest(s)

\* A pause that does not look at the slot.
pauseRequestUnguarded(s) ==
    IF ~CanWrite(s) THEN Caught(s, "pause")
    ELSE Send(writeCommandToVim(s, "ex", "breakint"), Response("pause", <<>>))

pauseRequest(s) ==
    IF s.vim_command_request # NoRequest
    THEN Send(s, ErrorResponse("pause", -401))
    ELSE IF ~CanWrite(s) THEN Caught(s, "pause")
    ELSE Send(writeCommandToVim(s, "ex", "breakint"), Response("pause", <<>>))

\* disconnectRequest: the last branch, attached without terminateDebuggee and no
\* slot open, returns without writing or answering.
disconnectRequest(s, terminateDebuggee) ==
    IF terminateDebuggee \/ s.did_start_vim
    THEN IF s.vim_command_request # NoRequest
         THEN vimCommand(s, "disconnect", ":qa!")
         ELSE IF ~CanWrite(s) THEN Caught(s, "disconnect")
         ELSE Send(writeCommandToVim(s, "ex", "qa!"), Response("disconnect", <<>>))
    ELSE IF s.vim_command_request # NoRequest
    THEN vimCommand(s, "disconnect", "quit")
    ELSE s

terminateRequest(s) == vimCommand(s, "terminate", ":qa!")

\* ------------------------------------------------------------- onVimData
\* The scope codes scopesRequest surfaces for a frame, in the order it pushes them.
ScopeCodes(type) ==
    (IF type = "UFUNC" THEN <<"l">> ELSE <<>>) \o <<"s", "g", "b", "w", "t", "v">>

\* A table that is started afresh by every scopes report.
PushScopesRecycled(refs, level, codes) ==
    [i \in 1..Len(codes) |-> [stack_level |-> level, scope |-> codes[i]]]

\* new Scope( var_refs, ... ) for each code: the table after the pushes.
PushScopes(refs, level, codes) ==
    refs \o [i \in 1..Len(codes) |-> [stack_level |-> level, scope |-> codes[i]]]

\* The frames of a stackTrace reply with the wanted stack_level, in order.
Matching(frames, frameId) ==
    SelectSeq(frames, LAMBDA f : f.stack_level = frameId)

\* response.body.breakpoints: new DA.Breakpoint( true, bp.line, ... ) for each
\* requested line.
Breakpoints(lines) == [i \in 1..Len(lines) |-> [verified |-> TRUE, line |-> lines[i]]]

\* The continuation of the handler a, whose await gives the reply msg (for
\* setBreakpoints the replies are not looked at).  Reading frames or vars of a
\* reply that has none throws in the handler.
Resume(s, a, msg) ==
    CASE a.command = "setBreakpoints" ->
           Send(s, Response("setBreakpoints", Breakpoints(a.lines)))
      [] a.command = "stackTrace" ->
           IF "frames" \in msg.fields
           THEN Send(s, Response("stackTrace",
                                 [i \in 1..Len(msg.frames) |->
                                     msg.frames[i].stack_level]))
           ELSE Throw(s, "async")
      [] a.command = "scopes" ->
           IF "frames" \notin msg.fields THEN Throw(s, "async")
           ELSE IF Matching(msg.frames, a.frameId) = <<>>
           THEN Send(s, ErrorResponse("scopes", -101))
           ELSE LET codes == ScopeCodes(Matching(msg.frames, a.frameId)[1].type)
                IN  Send([s EXCEPT !.var_refs = PushScopes(@, a.frameId, codes)],
                         Response("scopes",
                                  [i \in 1..Len(codes) |-> Len(s.var_refs) + i - 1]))
      [] a.command = "variables" ->
           IF "vars" \in msg.fields
           THEN Send(s, Response("variables", <<>>))
           ELSE Throw(s, "async")
      [] a.command = "evaluate" -> Send(s, Response("evaluate", <<>>))

\* The handler awaits Promise.all of its requests: its continuation is queued
\* one turn of the microtask queue later than that of a plain await.
BehindPromiseAll(r) == r.handler.command = "setBreakpoints"

\* The order in which the queued continuations run: those of a plain await in
\* the order their promises were resolved, then those behind Promise.all.
MicrotaskOrder(q) ==
    SelectSeq(q, LAMBDA r : ~BehindPromiseAll(r))
        \o SelectSeq(q, LAMBDA r : BehindPromiseAll(r))

RECURSIVE RunContinuations(_, _)
RunContinuations(s, q) ==
    IF q = <<>> THEN s
    ELSE RunContinuations(Resume(s, Head(q).handler, Head(q).msg), Tail(q))

\* The microtask queue is run when the socket's data callback has returned:
\* every handler whose await was fulfilled goes on to its end.
runMicrotasks(s) ==
    RunContinuations([s EXCEPT !.ready = <<>>], MicrotaskOrder(s.ready))

\* What the continuation of the handler a reads of the reply it awaited:
\* vim_stack.Arguments[ 'frames' ], vim_vars.Arguments.vars.
Awaited(a, msg) ==
    LET reads == CASE a.command \in {"stackTrace", "scopes"} -> {"frames"}
                   [] a.command = "variables" -> {"vars"}
                   [] OTHER -> {}
    IN  [fields |-> msg.fields \cap reads,
         frames |-> IF "frames" \in reads THEN msg.frames ELSE <<>>]

\* A Promise.all that is fulfilled by the first of its promises.
RemainingNone(waits, p) == {}

\* The promises an await still waits for when p has been fulfilled.
Remaining(waits, p) == waits \ {p}

\* pending_request.resolve( msg ) on promise p: a pending promise is settled;
\* the handler whose await this fulfils is queued to go on; on a settled
\* promise nothing happens.
Resolve(s, p, msg) ==
    LET called == [s EXCEPT !.resolveCalls =
                      Append(@, [promise |-> p, request_id |-> msg.request_id])]
        settled == [called EXCEPT !.promises = [q \in DOMAIN @ \ {p} |-> @[q]]]
        waiting == {a \in s.awaiting : p \in a.waits}
    IN  IF p \notin DOMAIN s.promises THEN called
        ELSE IF waiting = {} THEN settled
        ELSE LET a == CHOOSE b \in waiting : TRUE
                 left == Remaining(a.waits, p)
             IN  IF left = {}
                 THEN [settled EXCEPT !.awaiting = @ \ {a},
                                      !.ready = Append(@, [handler |-> a,
                                                           msg |-> Awaited(a, msg)])]
                 ELSE [settled EXCEPT !.awaiting =
                          (@ \ {a}) \cup {[a EXCEPT !.waits = left]}]

\* A map that keeps the entry of an answered request.
KeepEntry(map, rid) == map

\* this.vim_requests.delete( id ).
Delete(map, rid) == [k \in DOMAIN map \ {rid} |-> map[k]]

\* A dispatcher that takes replies to answer the requests in the order sent:
\* it resolves the oldest entry of the map whatever id the reply echoes.
DispatchReplyInOrder(s, msg) ==
    LET rid == IF "request_id" \in msg.fields THEN msg.request_id ELSE NoId
        oldest == CHOOSE k \in DOMAIN s.vim_requests :
                      \A j \in DOMAIN s.vim_requests : k <= j
    IN  IF rid \notin DOMAIN s.vim_requests THEN s
        ELSE [Resolve(s, s.vim_requests[oldest], msg)
              EXCEPT !.vim_requests = Delete(@, oldest)]

\* The Reply case: look the request_id up, resolve the promise found and delete
\* the entry.
DispatchReply(s, msg) ==
    LET rid == IF "request_id" \in msg.fields THEN msg.request_id ELSE NoId
    IN  IF rid \notin DOMAIN s.vim_requests THEN s
        ELSE [Resolve(s, s.vim_requests[rid], msg)
              EXCEPT !.vim_requests = Delete(@, rid)]

\* A register that turns a long-poll away while a slot is open.
OpenSlotIfFree(slot, id, fn) ==
    IF slot = NoRequest THEN [id |-> id, Function |-> fn] ELSE slot

\* The slot a long-poll request leaves: the new request takes the slot.
OpenSlot(slot, id, fn) == [id |-> id, Function |-> fn]

onVimData(s, rec) ==
    CASE rec.form # "ok" -> Throw(s, "event")
      [] rec.form = "ok" /\ rec.Message_type = "Notify" ->
           IF rec.Function # "Break" THEN s
           ELSE IF ~rec.hasArgs THEN Throw(s, "event")
           ELSE Send(s, Event("stopped"))
      [] rec.form = "ok" /\ rec.Message_type = "Request" ->
           IF rec.Function = "GetCommand"
           THEN [s EXCEPT !.vim_command_request = OpenSlot(@, rec.id, rec.Function)]
           ELSE IF rec.Function = "Initialize"
           THEN Send([s EXCEPT !.vim_command_request =
                         OpenSlot(@, rec.id, rec.Function)],
                     Event("initialized"))
           ELSE s
      [] rec.form = "ok" /\ rec.Message_type = "Reply" ->
           IF ~rec.hasArgs THEN Throw(s, "event") ELSE DispatchReply(s, rec)
      [] OTHER -> s

\* -------------------------------------------------------------------- Init
\* The variables take the session's fields.
Do(e) ==
    \E x \in UnhandledRejection(e) :
        /\ server' = x.server
        /\ launching' = x.launching
        /\ vim' = x.vim
        /\ connections' = x.connections
        /\ vim_command_request' = x.vim_command_request
        /\ next_request_id' = x.next_request_id
        /\ vim_requests' = x.vim_requests
        /\ did_start_vim' = x.did_start_vim
        /\ var_refs' = x.var_refs
        /\ promises' = x.promises
        /\ npromises' = x.npromises
        /\ awaiting' = x.awaiting
        /\ ready' = x.ready
        /\ crashed' = x.crashed
        /\ sentIds' = x.sentIds

Init ==
    /\ server = NewSession.server
    /\ launching = NewSession.launching
    /\ vim = NewSession.vim
    /\ connections = NewSession.connections
    /\ vim_command_request = NewSession.vim_command_request
    /\ next_request_id = NewSession.next_request_id
    /\ vim_requests = NewSession.vim_requests
    /\ did_start_vim = NewSession.did_start_vim
    /\ var_refs = NewSession.var_refs
    /\ promises = NewSession.promises
    /\ npromises = NewSession.npromises
    /\ awaiting = NewSession.awaiting
    /\ ready = NewSession.ready
    /\ crashed = NewSession.crashed
    /\ sentIds = NewSession.sentIds
    /\ toVim = <<>>
    /\ fromVim = <<>>
    /\ breakpoints = {}
    /\ hookUp = FALSE
    /\ hookPoll = NoRequest
    /\ hookSeq = 0
    /\ hookRead = 0
    /\ hookUnread = FALSE
    /\ hookSent = 0
    /\ hookLink = NoSocket

\* ---------------------------------------------------- inputs of the handlers
Frame(level, type) == [stack_level |-> level, type |-> type]

FrameLists == {<<>>, <<Frame(0, "SCRIPT"), Frame(1, "UFUNC")>>}

\* The lines a peer can send: one of each kind the handler tells apart.
PeerRecords ==
    {VimRecord("notjson", NoId, NoString, NoString, FALSE, NoId, {}, <<>>),
     VimRecord("notpair", NoId, NoString, NoString, FALSE, NoId, {}, <<>>)}
    \cup {VimRecord("ok", 1, "Notify", "Break", h, NoId,
                    IF h THEN {"Reason"} ELSE {}, <<>>) : h \in BOOLEAN}
    \cup {VimRecord("ok", id, "Request", fn, FALSE, NoId, {}, <<>>) :
            id \in EnvelopeIds, fn \in {"GetCommand", "Initialize"}}
    \cup {VimRecord("ok", 1, t, "Other", FALSE, NoId, {}, <<>>) :
            t \in {"Notify", "Request", "Other"}}
    \cup {VimRecord("ok", 1, "Reply", "Other", TRUE, rid, {"request_id"} \cup f, <<>>) :
            rid \in 0..MaxId, f \in {{}, {"vars"}, {"result"}}}
    \cup {VimRecord("ok", 1, "Reply", "stackTrace", TRUE, rid,
                    {"request_id", "frames"}, fs) :
            rid \in 0..MaxId, fs \in FrameLists}
    \cup {VimRecord("ok", 1, "Reply", "Other", h, NoId, {}, <<>>) : h \in BOOLEAN}

\* Sequences of breakpoint lines of one setBreakpoints request.
MaxBreakpoints == 2
LineListsTo(max) ==
    {ls \in UNION {[1..n -> 1..max] : n \in 0..MaxBreakpoints} :
        \A i, j \in 1..Len(ls) : i < j => ls[i] < ls[j]}
LineLists == LineListsTo(MaxLine)
FrameIds == 0..1

\* Entries the scopes answers still to come can append: the model's cap on
\* the reference table.
RoomForScopes(s) ==
    Len(s.var_refs)
      + Len(ScopeCodes("UFUNC"))
          * (1 + Cardinality({a \in s.awaiting : a.command = "scopes"})
               + Len(SelectSeq(s.ready, LAMBDA r : r.handler.command = "scopes")))
    <= MaxRefs

\* The ways the connection of the port ends: with a close (the 'close'
\* listener runs), or with a reset, an 'error' event (ECONNRESET) that
\* readline hands on and nobody listens for.
ConnectionEnd(s, port) == {Closed(s, port), Throw(s, "error")}

\* ------------------------------------- the adapter and an arbitrary peer
\* What becomes of the callback that left the session e when the peer can be
\* anything: the records it wrote are taken, or the peer has gone and the
\* socket answers the write with an 'error' event (EPIPE) that nobody listens
\* for.
OnPeer(e) == IF e.written = <<>> THEN {e} ELSE {e, Throw(e, "error")}

\* One callback of the adapter, the peer being anything that can write lines:
\* what the adapter writes is not kept.
Step(e) ==
    /\ ~crashed
    /\ \E x \in {e} :
          /\ x.next_request_id <= MaxId
          /\ Cardinality(x.awaiting) + Len(x.ready) <= MaxPending
          /\ \E o \in OnPeer(x) : Do(o)
    /\ UNCHANGED hookVars

\* A callback of its own turn of the event loop: the continuations queued
\* before have run.
Task(e) == ready = <<>> /\ Step(e)

Initialize == Task(initializeRequest(This))
Launch == \E port \in Ports : Task(launchRequest(This, port))
RunInTerminal == launching > 0 /\ Task(runInTerminalResponse(This))
Attach == \E port \in Ports : Task(attachRequest(This, port))
Connect == \E port \in server \ connections : Task(onConnection(This, port))
\* The connection of the port ends.
Close == \E port \in connections : \E e \in ConnectionEnd(This, port) : Task(e)
\* A line of the chunk being read, by the 'line' listener.
PeerSend == \E rec \in PeerRecords : connections # {} /\ Step(onVimData(This, rec))
\* The lines of the chunk are read: the queued continuations run.
Microtasks == ready # <<>> /\ Step(runMicrotasks(This))
SetBreakpoints ==
    \E f \in Files, ls \in LineLists : Task(setBreakPointsRequest(This, f, ls))
SetFunctionBreakpoints == Task(setFunctionBreakPointsRequest(This))
ConfigurationDone == Task(configurationDoneRequest(This))
Threads == Task(threadsRequest(This))
StackTrace == Task(stackTraceRequest(This))
Scopes == \E f \in FrameIds : RoomForScopes(This) /\ Task(scopesRequest(This, f))
Variables ==
    \E h \in {0, Len(var_refs) - 1, Len(var_refs)} :
        h >= 0 /\ Task(variablesRequest(This, h))
Pause == Task(pauseRequest(This))
Stepping == \E name \in SteppingCommands : Task(steppingRequest(This, name))
Evaluate == \E repl \in BOOLEAN, f \in FrameIds : Task(evaluateRequest(This, repl, f))
Disconnect == \E t \in BOOLEAN : Task(disconnectRequest(This, t))
Terminate == Task(terminateRequest(This))

Next ==
    \/ Initialize
    \/ Launch
    \/ RunInTerminal
    \/ Attach
    \/ Connect
    \/ Close
    \/ PeerSend
    \/ Microtasks
    \/ SetBreakpoints
    \/ SetFunctionBreakpoints
    \/ ConfigurationDone
    \/ Threads
    \/ StackTrace
    \/ Scopes
    \/ Variables
    \/ Pause
    \/ Stepping
    \/ Evaluate
    \/ Disconnect
    \/ Terminate

Spec == Init /\ [][Next]_vars

\* ------------------------------------------------- the hook (nub.vim)
\* The address the hook connects to: localhost:4321 unless $VIMTROSPECT_PORT
\* names another.
debugger_address == Ports

\* The bounds of a specification with the hook as the peer: of SpecHook, and
\* of the breakpoint exchange of SpecBreakpoints.
HookBounds ==
    [id |-> MaxHookId, pending |-> MaxHookPending, queue |-> MaxQueue,
     servers |-> MaxHookServers, unread |-> MaxUnread, sends |-> MaxSends,
     line |-> MaxLine, ports |-> {DEFAULT_PORT + k : k \in 0..(MaxHookPorts - 1)}]
WideBounds ==
    [id |-> WideHookId, pending |-> MaxHookPending, queue |-> WideQueue,
     servers |-> MaxHookServers, unread |-> MaxUnread, sends |-> WideSends,
     line |-> WideLine, ports |-> Ports]

\* ch_sendexpr / ch_evalexpr: every message the hook sends takes the channel's
\* next message id.
HookReply(id, fn, rid, fields, frames) ==
    VimRecord("ok", id, "Reply", fn, TRUE, rid, {"request_id"} \cup fields, frames)

HookNotify(id) == VimRecord("ok", id, "Notify", "Break", TRUE, NoId, {"Reason"}, <<>>)

HookRequest(id, fn) == VimRecord("ok", id, "Request", fn, FALSE, NoId, {}, <<>>)

\* breakadd file {line} {file}: the name Vim enters in its registry; a blank
\* at the end of the argument is no part of it.
BreakaddName(file) == IF file = "a.vim " THEN "a.vim" ELSE file

\* The name the pattern of clearLineBreakpoints takes from a line of breaklist
\* (name, two blanks, "line"): (.*)\s+line leaves one of the blanks in the name.
BreaklistName(name) ==
    CASE name = "a.vim" -> "a.vim " [] name = "b.vim" -> "b.vim " [] OTHER -> name

\* The breaklist entries the clearLineBreakpoints loop takes to be of the file:
\* type is file and the name parsed from the line equals the file sent.
Matches(bp, file) == BreaklistName(bp.file) = file

\* s:OnChannelMessage on the request msg, the registry being bps and the stack
\* of debug_getstack() frames: the registry it leaves and the reply it sends,
\* if any.  clearLineBreakpoints runs  execute 'breakdel ' .. idx  for the
\* first entry of the file; idx is no variable of the function (the number was
\* parsed into id), so the function aborts there: nothing is deleted, no reply
\* is sent.  execute has no branch and gets no reply.
OnChannelMessage(msg, bps, frames) ==
    LET same == [bps |-> bps, reply |-> FALSE, fields |-> {}, frames |-> <<>>]
    IN  CASE msg.Function = "clearLineBreakpoints" ->
               IF \E bp \in bps : Matches(bp, msg.file)
               THEN same
               ELSE [same EXCEPT !.reply = TRUE]
          [] msg.Function = "setLineBreakpoint" ->
               [same EXCEPT !.bps = bps \cup {[file |-> BreakaddName(msg.file),
                                               line |-> msg.line]},
                            !.reply = TRUE]
          [] msg.Function = "stackTrace" ->
               [same EXCEPT !.reply = TRUE, !.fields = {"frames"}, !.frames = frames]
          [] msg.Function = "variables" ->
               [same EXCEPT !.reply = TRUE, !.fields = {"vars"}]
          [] msg.Function = "evaluate" ->
               [same EXCEPT !.reply = TRUE, !.fields = {"result", "type"}]
          [] OTHER -> same

\* What becomes of the records the callback that left the session e wrote:
\* they arrive at Vim in order.  When Vim has gone and the adapter has not yet
\* seen the connection end, the write is lost and stays unread, or the socket
\* answers it with an 'error' event (EPIPE) that nobody listens for.
OnSocket(e) ==
    IF e.written = <<>>
    THEN {[e |-> e, toVim |-> toVim, unread |-> hookUnread]}
    ELSE IF hookUp
    THEN {[e |-> e, toVim |-> toVim \o e.written, unread |-> hookUnread]}
    ELSE {[e |-> e, toVim |-> toVim, unread |-> TRUE],
          [e |-> Throw(e, "error"), toVim |-> toVim, unread |-> hookUnread]}

\* One callback of the adapter, the peer being the hook: what it writes goes
\* on the socket.  b holds the bounds of the specification.
Bridge(e, b) ==
    /\ ~crashed
    /\ \E x \in {e} :
          /\ x.next_request_id <= b.id
          /\ Cardinality(x.awaiting) + Len(x.ready) <= b.pending
          /\ Len(toVim) + Len(x.written) <= b.queue
          /\ Cardinality(x.server) <= b.servers
          /\ \E o \in OnSocket(x) :
                /\ Do(o.e)
                /\ toVim' = o.toVim
                /\ hookUnread' = o.unread

\* What a callback of the adapter leaves alone on Vim's side.
vimVars == <<fromVim, breakpoints, hookUp, hookPoll, hookSeq, hookSent, hookRead, hookLink>>

\* A request of the editor, or the answer to the runInTerminal request: a
\* callback of its own turn of the event loop.
EditorStep(e, b) == ready = <<>> /\ Bridge(e, b) /\ UNCHANGED vimVars

HookInitialize(b) == EditorStep(initializeRequest(This), b)
HookLaunch(b) == \E port \in b.ports : EditorStep(launchRequest(This, port), b)
HookRunInTerminal(b) == launching > 0 /\ EditorStep(runInTerminalResponse(This), b)
HookAttach(b) == \E port \in b.ports : EditorStep(attachRequest(This, port), b)
HookSetBreakpoints(b) ==
    \E f \in Files, ls \in LineListsTo(b.line) :
        EditorStep(setBreakPointsRequest(This, f, ls), b)
HookSetFunctionBreakpoints(b) == EditorStep(setFunctionBreakPointsRequest(This), b)
HookConfigurationDone(b) == EditorStep(configurationDoneRequest(This), b)
HookThreads(b) == EditorStep(threadsRequest(This), b)
HookStackTrace(b) == EditorStep(stackTraceRequest(This), b)
HookScopes(b) ==
    \E f \in FrameIds : RoomForScopes(This) /\ EditorStep(scopesRequest(This, f), b)
HookVariables(b) ==
    \E h \in {0, Len(var_refs) - 1, Len(var_refs)} :
        h >= 0 /\ EditorStep(variablesRequest(This, h), b)
HookPause(b) == EditorStep(pauseRequest(This), b)
HookStepping(b) ==
    \E name \in SteppingCommands : EditorStep(steppingRequest(This, name), b)
HookEvaluate(b) ==
    \E repl \in BOOLEAN, f \in FrameIds : EditorStep(evaluateRequest(This, repl, f), b)
HookDisconnect(b) == \E t \in BOOLEAN : EditorStep(disconnectRequest(This, t), b)
HookTerminate(b) == EditorStep(terminateRequest(This), b)

\* s:Connect of a Vim that starts while no other is connected: ch_open to a
\* port the adapter listens on, then the Initialize long-poll.  The channel is
\* new (its ids start at 1) and so is Vim (its breakpoint registry is empty).
\* This is Vim's side alone: the adapter's connection listener runs later.
s_Connect(b) ==
    /\ ~hookUp /\ hookLink = NoSocket
    /\ hookSent < b.sends
    /\ \E port \in debugger_address \cap (server \ connections) : hookLink' = port
    /\ hookUp' = TRUE
    /\ hookSeq' = 1
    /\ hookSent' = hookSent + 1
    /\ hookPoll' = [id |-> 1, Function |-> "Initialize"]
    /\ fromVim' = <<HookRequest(1, "Initialize")>>
    /\ UNCHANGED <<toVim, breakpoints, hookRead, hookUnread>>
    /\ UNCHANGED bridgeVars

\* The connection listener of the server Vim has connected to.
HookConnect(b) ==
    /\ hookLink # NoSocket /\ hookLink \in server \ connections
    /\ ready = <<>>
    /\ Bridge(onConnection(This, hookLink), b)
    /\ UNCHANGED vimVars

\* s:Connected: s:dap exists and ch_status says the channel is open.
s_Connected == hookUp

\* The records of toVim but the i-th.
Without(q, i) == [k \in 1..(Len(q) - 1) |-> IF k < i THEN q[k] ELSE q[k + 1]]

\* The reply ch_evalexpr waits for is the i-th record of the channel.
Polled(i) ==
    /\ hookPoll # NoRequest
    /\ toVim[i].Message_type = "Reply"
    /\ toVim[i].ref = hookPoll.id

\* The i-th record of the channel is a reply under an id no ch_evalexpr waits
\* for: of a long-poll given up, or of one that has returned.
Stale(i) == toVim[i].Message_type = "Reply" /\ ~Polled(i)

\* Such a reply is in Vim's message queue.  The channel was opened with
\* drop: 'never': Vim takes the reply off its queue, finds no callback for its
\* id and puts it back, behind the record that is then the first; it does so
\* again and again.  Inside ch_evalexpr this loop never gets to wait on the
\* socket: nothing more is read and the call neither returns nor times out.
\* Outside it Vim runs on (it takes keys, scripts run), but parses nothing more
\* off the socket.
StaleHeld == hookRead >= 1 /\ Stale(1)

\* The place in toVim of the record Vim handles next, 0 when there is none:
\* the oldest record; or, the oldest being a reply Vim keeps putting back, the
\* record behind it in the queue unless that is such a reply as well.
Turn ==
    IF toVim = <<>> THEN 0
    ELSE IF ~Stale(1) THEN 1
    ELSE IF hookRead >= 2 /\ ~Stale(2) THEN 2
    ELSE 0

\* Vim's queue once the j-th record of toVim is handled.
Taken(j) == IF j <= hookRead THEN hookRead - 1 ELSE hookRead

\* Vim ends on the j-th record of toVim: records are left on the socket that
\* it has not read (those of its queue, and those up to the j-th, it has).
LeftUnread(j) == Len(toVim) > (IF hookRead > j THEN hookRead ELSE j)

\* ch_evalexpr timed out (no reply in 10 s): the while loop sends the long-poll
\* again, under the channel's next id.
PollAgain(b) ==
    /\ s_Connected /\ hookPoll # NoRequest
    /\ ~StaleHeld
    /\ hookSent < b.sends
    /\ Len(fromVim) < b.unread
    /\ hookSeq' = hookSeq + 1
    /\ hookSent' = hookSent + 1
    /\ hookPoll' = [hookPoll EXCEPT !.id = hookSeq + 1]
    /\ fromVim' = Append(fromVim, HookRequest(hookSeq + 1, hookPoll.Function))
    /\ UNCHANGED <<toVim, breakpoints, hookUp, hookRead, hookUnread, hookLink>>
    /\ UNCHANGED bridgeVars

\* DebugHook: Vim stops at a breakpoint; the hook notifies the adapter and
\* long-polls for the command.  When Vim keeps a reply in its queue, the
\* records that came in behind it since were read off the socket and not
\* parsed: the new ch_evalexpr parses what has been read by then.
DebugHook(b) ==
    /\ s_Connected /\ hookPoll = NoRequest
    /\ hookSent + 2 <= b.sends
    /\ Len(fromVim) + 2 <= b.unread
    /\ hookSeq' = hookSeq + 2
    /\ hookSent' = hookSent + 2
    /\ hookPoll' = [id |-> hookSeq + 2, Function |-> "GetCommand"]
    /\ fromVim' = fromVim \o <<HookNotify(hookSeq + 1),
                               HookRequest(hookSeq + 2, "GetCommand")>>
    /\ hookRead' \in (IF StaleHeld THEN hookRead..Len(toVim) ELSE {hookRead})
    /\ UNCHANGED <<toVim, breakpoints, hookUp, hookUnread, hookLink>>
    /\ UNCHANGED bridgeVars

\* Vim handles the next record of its channel, a request of the adapter:
\* s:OnChannelMessage.
ChannelMessage(b) ==
    /\ s_Connected /\ Turn # 0
    /\ toVim[Turn].Message_type = "Request"
    /\ \E frames \in FrameLists :
          LET msg == toVim[Turn]
              r == OnChannelMessage(msg, breakpoints, frames)
          IN  /\ (msg.Function # "stackTrace" => frames = <<>>)
              /\ r.reply => (hookSent < b.sends /\ Len(fromVim) < b.unread)
              /\ breakpoints' = r.bps
              /\ hookSeq' = IF r.reply THEN hookSeq + 1 ELSE hookSeq
              /\ hookSent' = IF r.reply THEN hookSent + 1 ELSE hookSent
              /\ fromVim' = IF r.reply
                            THEN Append(fromVim,
                                        HookReply(hookSeq + 1, msg.Function,
                                                  msg.request_id, r.fields, r.frames))
                            ELSE fromVim
    /\ toVim' = Without(toVim, Turn)
    /\ hookRead' = Taken(Turn)
    /\ UNCHANGED <<hookUp, hookPoll, hookUnread, hookLink>>
    /\ UNCHANGED bridgeVars

\* ch_evalexpr finds the reply under the id it waits for, whatever has arrived
\* ahead of it: the long-poll ends, and what arrived ahead stays in Vim's
\* queue.  DebugHook returns Arguments.Command for Vim to run, and :qa! ends
\* Vim; s:Connect does not read the reply.
ChannelReply ==
    /\ s_Connected /\ ~StaleHeld
    /\ \E i \in 1..Len(toVim) :
          /\ Polled(i)
          /\ \A k \in 1..(i - 1) : ~Polled(k)
          /\ LET quits == hookPoll.Function = "GetCommand" /\ toVim[i].Command = ":qa!"
             IN  /\ hookUp' = ~quits
                 /\ toVim' = IF quits THEN <<>> ELSE Without(toVim, i)
                 /\ hookRead' = IF quits THEN 0
                                ELSE IF i <= hookRead THEN hookRead - 1 ELSE i - 1
                 /\ hookUnread' = (quits /\ LeftUnread(i))
                 /\ breakpoints' = IF quits THEN {} ELSE breakpoints
                 /\ hookSeq' = IF quits THEN 0 ELSE hookSeq
    /\ hookPoll' = NoRequest
    /\ UNCHANGED <<fromVim, hookSent, hookLink>>
    /\ UNCHANGED bridgeVars

\* Vim reads a reply under an id no ch_evalexpr waits for into its empty
\* queue, and from then on keeps it there.  Outside ch_evalexpr Vim parses one
\* record at a time, so the reply alone; inside it Vim parses all it has read,
\* the reply and what came with it in the same read (the awaited reply is not
\* among them, or ch_evalexpr would have returned).
ChannelStale ==
    /\ s_Connected /\ hookRead = 0
    /\ toVim # <<>> /\ Stale(1)
    /\ \E k \in 1..Len(toVim) :
          /\ hookPoll = NoRequest => k = 1
          /\ \A i \in 1..k : ~Polled(i)
          /\ hookRead' = k
    /\ UNCHANGED <<toVim, fromVim, breakpoints, hookUp, hookPoll, hookSeq,
                   hookSent, hookUnread, hookLink>>
    /\ UNCHANGED bridgeVars

\* Vim handles the next record of its channel, a pushed command [ "ex", cmd ]:
\* qa! ends Vim; breakint stops a running Vim in DebugHook.
ChannelCommand ==
    /\ s_Connected /\ Turn # 0
    /\ toVim[Turn].mode = "ex"
    /\ LET quits == toVim[Turn].Command = "qa!"
       IN  /\ hookUp' = ~quits
           /\ hookPoll' = IF quits THEN NoRequest ELSE hookPoll
           /\ toVim' = IF quits THEN <<>> ELSE Without(toVim, Turn)
           /\ hookRead' = IF quits THEN 0 ELSE Taken(Turn)
           /\ hookUnread' = (quits /\ LeftUnread(Turn))
           /\ breakpoints' = IF quits THEN {} ELSE breakpoints
           /\ hookSeq' = IF quits THEN 0 ELSE hookSeq
    /\ UNCHANGED <<fromVim, hookSent, hookLink>>
    /\ UNCHANGED bridgeVars

\* s:OnChannelClosed: the adapter has ended and Vim has taken every record it
\* had written: the close callback forgets the channel, a ch_evalexpr in
\* progress returns empty-handed and its loop ends.  Vim lives on.
s_OnChannelClosed ==
    /\ s_Connected /\ crashed /\ toVim = <<>>
    /\ hookUp' = FALSE
    /\ hookPoll' = NoRequest
    /\ hookSeq' = 0
    /\ UNCHANGED <<toVim, fromVim, breakpoints, hookSent, hookRead, hookUnread, hookLink>>
    /\ UNCHANGED bridgeVars

\* The 'line' listener: the adapter reads the oldest line of the hook.
Deliver(b) ==
    /\ hookLink \in connections /\ fromVim # <<>>
    /\ Bridge(onVimData(This, Head(fromVim)), b)
    /\ fromVim' = Tail(fromVim)
    /\ UNCHANGED <<breakpoints, hookUp, hookPoll, hookSeq, hookSent, hookRead, hookLink>>

\* The lines of the chunk are read: the queued continuations run.
HookMicrotasks(b) == ready # <<>> /\ Bridge(runMicrotasks(This), b) /\ UNCHANGED vimVars

\* The ways Vim's connection ends once Vim has gone: with a close, or, when
\* Vim left records of the adapter unread, with a reset.
LinkEnd(port) == {e \in ConnectionEnd(This, port) : e.crashed => hookUnread}

\* Vim has gone and every line of it was read: its connection ends.
LinkClosed ==
    /\ ~crashed
    /\ ~hookUp /\ fromVim = <<>>
    /\ hookLink \in connections
    /\ ready = <<>>
    /\ \E e \in LinkEnd(hookLink) : Do(e)
    /\ hookUnread' = FALSE
    /\ hookLink' = NoSocket
    /\ UNCHANGED <<toVim, fromVim, breakpoints, hookUp, hookPoll, hookSeq,
                   hookSent, hookRead>>

NextHook ==
    \/ HookInitialize(HookBounds)
    \/ HookLaunch(HookBounds)
    \/ HookRunInTerminal(HookBounds)
    \/ HookAttach(HookBounds)
    \/ HookSetBreakpoints(HookBounds)
    \/ HookSetFunctionBreakpoints(HookBounds)
    \/ HookConfigurationDone(HookBounds)
    \/ HookThreads(HookBounds)
    \/ HookStackTrace(HookBounds)
    \/ HookScopes(HookBounds)
    \/ HookVariables(HookBounds)
    \/ HookPause(HookBounds)
    \/ HookStepping(HookBounds)
    \/ HookEvaluate(HookBounds)
    \/ HookDisconnect(HookBounds)
    \/ HookTerminate(HookBounds)
    \/ s_Connect(HookBounds)
    \/ HookConnect(HookBounds)
    \/ PollAgain(HookBounds)
    \/ DebugHook(HookBounds)
    \/ ChannelMessage(HookBounds)
    \/ ChannelReply
    \/ ChannelStale
    \/ ChannelCommand
    \/ s_OnChannelClosed
    \/ Deliver(HookBounds)
    \/ HookMicrotasks(HookBounds)
    \/ LinkClosed

SpecHook == Init /\ [][NextHook]_vars

\* The breakpoint exchange of the adapter and one Vim in its Initialize
\* long-poll: attach, Vim connects, setBreakpoints requests, Vim's answers.
NextBreakpoints ==
    \/ HookAttach(WideBounds)
    \/ s_Connect(WideBounds)
    \/ HookConnect(WideBounds)
    \/ HookSetBreakpoints(WideBounds)
    \/ ChannelMessage(WideBounds)
    \/ Deliver(WideBounds)
    \/ HookMicrotasks(WideBounds)

SpecBreakpoints == Init /\ [][NextBreakpoints]_vars

\* ================================================================ claims
\* The inputs the claims speak of.
LongPoll(id, fn) == VimRecord("ok", id, "Request", fn, FALSE, NoId, {}, <<>>)

LongPolls == {LongPoll(id, fn) : id \in EnvelopeIds, fn \in {"GetCommand", "Initialize"}}

Replies == {rec \in PeerRecords : rec.Message_type = "Reply" /\ rec.hasArgs}

\* The adapter is running and this.vim is a connection.
Connected == vim # NoSocket /\ ~crashed

\* The adapter is running and a connection is open: a line can be read.
Reading == connections # {} /\ ~crashed

\* r is the reply [ id, { Message_type: 'Reply', Function: fn } ] to a long-poll.
IsSlotReply(r, id, fn) ==
    r.ref = id /\ r.Message_type = "Reply" /\ r.Function = fn /\ r.mode = NoString

\* r is the push [ "ex", cmd ].
IsPush(r, cmd) == r.mode = "ex" /\ r.Command = cmd /\ r.Message_type = NoString

\* o is a single error response to the request name.
IsError(o, name) ==
    Len(o) = 1 /\ o[1].type = "response" /\ o[1].name = name /\ ~o[1].success

\* o is a single successful response to the request name.
IsSuccess(o, name) ==
    Len(o) = 1 /\ o[1].type = "response" /\ o[1].name = name /\ o[1].success

\* The slot is absent or it is one long-poll of the hook.
SlotOK(slot) ==
    \/ slot = NoRequest
    \/ /\ slot.id \in EnvelopeIds
       /\ slot.Function \in {"GetCommand", "Initialize"}

\* ---------------------------------------------------------------- C1
\* C1 as stated: a long-poll request that arrives while a slot is open is
\* rejected, and the open slot keeps its envelope id and function name.
C1_SecondLongPollRejected ==
    \A rec \in LongPolls :
        (Reading /\ vim_command_request # NoRequest)
            => onVimData(This, rec).vim_command_request = vim_command_request

\* C1 (amended): at most one command slot is ever open, and a long-poll request
\* that arrives while a slot is open takes the slot over: afterwards the slot
\* holds the new request's envelope id and function name, whatever it held.
C1_LongPollTakesSlot ==
    /\ SlotOK(vim_command_request)
    /\ \A rec \in LongPolls :
          Reading =>
             LET e == onVimData(This, rec)
             IN  /\ e.vim_command_request = [id |-> rec.id, Function |-> rec.Function]
                 /\ e.written = <<>>
                 /\ ~e.crashed

\* C1 witness: a GetCommand slot is open and a long-poll with another envelope
\* id takes it over.
C1_Witness ==
    /\ Connected
    /\ vim_command_request = [id |-> 1, Function |-> "GetCommand"]
    /\ onVimData(This, LongPoll(2, "GetCommand")).vim_command_request.id = 2

\* ---------------------------------------------------------------- C2
\* C2 as stated: the step that processes the disconnection leaves no promise
\* pending, no handler waiting for one, no entry of the map holding one, and
\* no slot open.
C2_CloseFailsAllPending ==
    [][(vim # NoSocket /\ vim' = NoSocket /\ ~crashed')
          => /\ DOMAIN promises' = {}
             /\ awaiting' = {}
             /\ \A rid \in DOMAIN vim_requests' :
                   vim_requests'[rid] \notin DOMAIN promises
             /\ vim_command_request' = NoRequest]_vars

\* ---------------------------------------------------------------- C3
\* C3: a reply settles exactly the pending promises of the request whose
\* request_id it echoes, every resolve call it makes on a pending promise is
\* for that request, and every pending promise stays reachable through the
\* map under its own id, so that its reply will resolve it, once.
C3_ReplyResolvesItsOwnFuture ==
    /\ \A p \in DOMAIN promises :
          /\ promises[p].request_id \in DOMAIN vim_requests
          /\ vim_requests[promises[p].request_id] = p
    /\ \A p, q \in DOMAIN promises :
          promises[p].request_id = promises[q].request_id => p = q
    /\ \A rec \in Replies :
          Reading =>
             LET e == onVimData(This, rec)
             IN  /\ \A p \in DOMAIN promises :
                       (p \notin DOMAIN e.promises)
                           <=> promises[p].request_id = rec.request_id
                 /\ DOMAIN e.promises \subseteq DOMAIN promises
                 /\ \A i \in 1..Len(e.resolveCalls) :
                       e.resolveCalls[i].promise \in DOMAIN promises
                           => promises[e.resolveCalls[i].promise].request_id
                                 = rec.request_id
                 /\ Len(e.resolveCalls) <= 1

\* C3 witness: two requests are outstanding and the reply to the later one
\* is the one that arrives: it resolves the later promise and leaves the other.
C3_Witness ==
    /\ Connected
    /\ {0, 1} \subseteq DOMAIN promises
    /\ promises[0].request_id = 0
    /\ promises[1].request_id = 1
    /\ LET e == onVimData(This, VimRecord("ok", 1, "Reply", "Other", TRUE, 1,
                                          {"request_id"}, <<>>))
       IN  DOMAIN e.promises = DOMAIN promises \ {1}

\* ---------------------------------------------------------------- C4
\* C4: the request ids stamped so far are strictly increasing, hence all
\* different, whatever replies and disconnections came in between.
C4_IdsNeverReused ==
    /\ \A i, j \in 1..Len(sentIds) : i < j => sentIds[i].id < sentIds[j].id
    /\ \A i \in 1..Len(sentIds) : sentIds[i].id < next_request_id

\* C4 witness: request 0 was sent, request 1 found no socket (the Link had
\* closed), and on the new connection the next request is stamped 2.
C4_Witness ==
    /\ Connected
    /\ Len(sentIds) = 2
    /\ sentIds[1] = [id |-> 0, sent |-> TRUE]
    /\ sentIds[2] = [id |-> 1, sent |-> FALSE]
    /\ stackTraceRequest(This).written[1].request_id = 2

\* ---------------------------------------------------------------- C5
\* The command string the claim gives for each stepping request.
C5_Command ==
    [continue |-> "cont", next |-> "next", stepIn |-> "step", stepOut |-> "finish"]

\* C5: with a GetCommand slot of envelope id k open, a stepping request writes
\* the one record [k, Reply GetCommand, Command c] and nothing else, answers
\* the editor and closes the slot, and a GetCommand request that comes later
\* opens a slot under its own envelope id.
C5_StepAnswersSlot ==
    \A name \in SteppingCommands :
        (Connected /\ vim_command_request # NoRequest
                   /\ vim_command_request.Function = "GetCommand")
            => LET e == steppingRequest(This, name)
               IN  /\ Len(e.written) = 1
                   /\ IsSlotReply(e.written[1], vim_command_request.id, "GetCommand")
                   /\ e.written[1].Command = C5_Command[name]
                   /\ IsSuccess(e.out, name)
                   /\ e.vim_command_request = NoRequest
                   /\ \A rec \in LongPolls :
                         rec.Function = "GetCommand"
                             => onVimData(After(e), rec).vim_command_request
                                   = [id |-> rec.id, Function |-> "GetCommand"]

\* C5 witness: the hook's GetCommand of envelope id 2 is open and next writes
\* [2, Reply GetCommand, Command next].
C5_Witness ==
    /\ Connected
    /\ vim_command_request = [id |-> 2, Function |-> "GetCommand"]
    /\ nextRequest(This).written = <<SlotReply(2, "GetCommand", "next")>>
    /\ nextRequest(This).vim_command_request = NoRequest

\* ---------------------------------------------------------------- C6
\* e rejects the request name: one error response, nothing written, slot kept.
C6_Rejected(e, name) ==
    /\ IsError(e.out, name)
    /\ e.written = <<>>
    /\ e.vim_command_request = vim_command_request

\* C6: a stepping request with no slot or an Initialize slot, and a
\* configurationDone with no slot or a GetCommand slot, is answered with an
\* error, writes nothing and leaves the slot as it was.
C6_WrongSlotIsAnError ==
    /\ \A name \in SteppingCommands :
          (~crashed /\ (vim_command_request = NoRequest
                        \/ vim_command_request.Function = "Initialize"))
              => C6_Rejected(steppingRequest(This, name), name)
    /\ (~crashed /\ (vim_command_request = NoRequest
                     \/ vim_command_request.Function = "GetCommand"))
          => C6_Rejected(configurationDoneRequest(This), "configurationDone")

\* C6 witness: an Initialize slot is open and continue is turned away.
C6_Witness ==
    /\ Connected
    /\ vim_command_request # NoRequest
    /\ vim_command_request.Function = "Initialize"
    /\ IsError(continueRequest(This).out, "continue")

\* ---------------------------------------------------------------- C7
\* C7: pause with the hook connected and no slot writes the push
\* ["ex","breakint"] and no reply, and leaves the slot absent; a GetCommand
\* that comes afterwards opens a slot that one stepping request answers and a
\* second one does not; pause with a slot open is an error and writes nothing.
C7_PausePushesInterrupt ==
    /\ (Connected /\ vim_command_request = NoRequest)
          => LET e == pauseRequest(This)
             IN  /\ Len(e.written) = 1
                 /\ IsPush(e.written[1], "breakint")
                 /\ IsSuccess(e.out, "pause")
                 /\ e.vim_command_request = NoRequest
                 /\ \A rec \in LongPolls, name \in SteppingCommands :
                       rec.Function = "GetCommand"
                           => LET opened == onVimData(After(e), rec)
                                  first == steppingRequest(After(opened), name)
                                  second == steppingRequest(After(first), name)
                              IN  /\ opened.vim_command_request
                                        = [id |-> rec.id, Function |-> "GetCommand"]
                                  /\ opened.written = <<>>
                                  /\ Len(first.written) = 1
                                  /\ IsSlotReply(first.written[1], rec.id, "GetCommand")
                                  /\ IsError(second.out, name)
                                  /\ second.written = <<>>
    /\ (Connected /\ vim_command_request # NoRequest)
          => LET e == pauseRequest(This)
             IN  /\ IsError(e.out, "pause")
                 /\ e.written = <<>>
                 /\ e.vim_command_request = vim_command_request

\* C7 witness: the interpreter runs (configuration is done, no slot is open)
\* and pause pushes the interrupt.
C7_Witness ==
    /\ Connected
    /\ vim_command_request = NoRequest
    /\ pauseRequest(This).written = <<Push("ex", "breakint")>>

\* ---------------------------------------------------------------- C8
\* Every callback the adapter can run in this state, with the session it leaves.
Run(op, e) == [op |-> op, e |-> e]

HandlerRuns ==
    {Run("initialize", initializeRequest(This)),
     Run("runInTerminal", runInTerminalResponse(This)),
     Run("microtasks", runMicrotasks(This)),
     Run("setFunctionBreakpoints", setFunctionBreakPointsRequest(This)),
     Run("configurationDone", configurationDoneRequest(This)),
     Run("threads", threadsRequest(This)),
     Run("stackTrace", stackTraceRequest(This)),
     Run("pause", pauseRequest(This)),
     Run("terminate", terminateRequest(This))}
    \cup {Run("launch", launchRequest(This, port)) : port \in Ports}
    \cup {Run("attach", attachRequest(This, port)) : port \in Ports}
    \cup {Run("connection", onConnection(This, port)) : port \in server}
    \cup {Run("close", Closed(This, port)) : port \in connections}
    \cup {Run("onVimData", onVimData(This, rec)) : rec \in PeerRecords}
    \cup {Run("setBreakpoints", setBreakPointsRequest(This, f, ls)) :
            f \in Files, ls \in LineLists}
    \cup {Run("scopes", scopesRequest(This, f)) : f \in FrameIds}
    \cup {Run("variables", variablesRequest(This, h)) : h \in 0..Len(var_refs)}
    \cup {Run(name, steppingRequest(This, name)) : name \in SteppingCommands}
    \cup {Run("evaluate", evaluateRequest(This, repl, f)) :
            repl \in BOOLEAN, f \in FrameIds}
    \cup {Run("disconnect", disconnectRequest(This, t)) : t \in BOOLEAN}

\* C8: the Initialize long-poll opens the slot and is announced to the editor
\* without a reply; setBreakpoints requests and their replies leave the slot
\* open; a reply to Initialize is written by configurationDone alone, with
\* an Initialize slot open and under that slot's envelope id; and
\* configurationDone then writes that one reply and closes the slot.
C8_InitializeAnsweredOnConfigurationDone ==
    /\ \A rec \in LongPolls :
          (Reading /\ rec.Function = "Initialize")
              => LET e == onVimData(This, rec)
                 IN  /\ e.vim_command_request = [id |-> rec.id, Function |-> "Initialize"]
                     /\ e.out = <<Event("initialized")>>
                     /\ e.written = <<>>
    /\ (Connected /\ vim_command_request # NoRequest
                  /\ vim_command_request.Function = "Initialize")
          => /\ \A f \in Files, ls \in LineLists :
                   LET e == setBreakPointsRequest(This, f, ls)
                   IN  /\ e.vim_command_request = vim_command_request
                       /\ \A i \in 1..Len(e.written) :
                             e.written[i].Message_type = "Request"
             /\ \A rec \in Replies :
                   LET e == onVimData(This, rec)
                   IN  /\ e.vim_command_request = vim_command_request
                       /\ e.written = <<>>
             /\ LET e == configurationDoneRequest(This)
                IN  /\ Len(e.written) = 1
                    /\ IsSlotReply(e.written[1], vim_command_request.id, "Initialize")
                    /\ IsSuccess(e.out, "configurationDone")
                    /\ e.vim_command_request = NoRequest
    /\ \A x \in HandlerRuns :
          \A i \in 1..Len(x.e.written) :
              (x.e.written[i].Message_type = "Reply"
                 /\ x.e.written[i].Function = "Initialize")
                  => /\ x.op = "configurationDone"
                     /\ vim_command_request # NoRequest
                     /\ vim_command_request.Function = "Initialize"
                     /\ x.e.written[i].ref = vim_command_request.id

\* C8 witness: the Initialize slot is open while a setBreakpoints exchange is
\* outstanding, and configurationDone answers it.
C8_Witness ==
    /\ Connected
    /\ vim_command_request = [id |-> 1, Function |-> "Initialize"]
    /\ \E a \in awaiting : a.command = "setBreakpoints"
    /\ configurationDoneRequest(This).written = <<SlotReply(1, "Initialize", NoString)>>

\* ---------------------------------------------------------------- C9
\* A quit of the forcing kind (qa!) or of the plain kind is among the records.
C9_ForceQuit(w) == \E i \in 1..Len(w) : w[i].Command \in {":qa!", "qa!"}

C9_PlainQuit(w) == \E i \in 1..Len(w) : w[i].Command \in {"quit", "qa"}

\* C9 as stated: with the hook connected, disconnect and terminate write a
\* force-quit when the adapter spawned Vim and a plain quit when it only
\* attached (a force-quit being accepted for an attached disconnect that asks
\* for terminateDebuggee), whatever the slot holds.
C9_QuitOfTheRightKind ==
    Connected =>
       /\ \A t \in BOOLEAN :
             LET w == disconnectRequest(This, t).written
             IN  IF did_start_vim THEN C9_ForceQuit(w)
                 ELSE C9_PlainQuit(w) \/ (t /\ C9_ForceQuit(w))
       /\ LET w == terminateRequest(This).written
          IN  IF did_start_vim THEN C9_ForceQuit(w) ELSE C9_PlainQuit(w)

\* ---------------------------------------------------------------- C10
\* The lines active in the registry bps for the file of a setBreakpoints.
LinesOf(bps, file) == {bp.line : bp \in {b \in bps : b.file = BreakaddName(file)}}

\* Vim runs, it is the first Vim of the run (every record the adapter has
\* written went to it), and it has read and answered everything, and so has
\* the adapter.
Quiet ==
    /\ vim # NoSocket /\ s_Connected /\ hookSent = hookSeq
    /\ toVim = <<>> /\ fromVim = <<>> /\ ready = <<>>

Completes(a) ==
    /\ a \in awaiting
    /\ a \notin awaiting'
    /\ Cardinality(a.waits) = 1
    /\ ~crashed' /\ hookUp'

OnlyOneForFile(a) ==
    \A b \in awaiting \ {a} : b.command = "setBreakpoints" => b.file # a.file

\* C10 (as stated): against Vim reading the records in arrival order,
\* setBreakpoints is clear-then-set.  A setBreakpoints(file, lines) that is the
\* only one in progress for its file has completed once Vim has read and
\* answered everything; when it completes, the lines active for the file in
\* Vim's registry are exactly the lines of the request (so [l1, l2] followed by
\* [l3] leaves exactly l3); and a record about one file leaves the
\* breakpoints of the other files untouched.
C10_ClearThenSet ==
    [][ /\ \A a \in awaiting' :
              (a.command = "setBreakpoints" /\ awaiting' = {a}) => ~Quiet'
        /\ \A a \in awaiting :
              (a.command = "setBreakpoints" /\ OnlyOneForFile(a) /\ Completes(a))
                 => LinesOf(breakpoints', a.file) = {a.lines[i] : i \in 1..Len(a.lines)}
        /\ \A g \in Files :
              (hookUp /\ hookUp' /\ (toVim = <<>> \/ Head(toVim).file # g))
                 => LinesOf(breakpoints', g) = LinesOf(breakpoints, g)
      ]_vars

\* ---------------------------------------------------------------- C11
\* The scope codes the claim lists for a frame of the given type.
C11_Codes(type) ==
    IF type = "UFUNC" THEN <<"l", "s", "g", "b", "w", "t", "v">>
    ELSE <<"s", "g", "b", "w", "t", "v">>

\* The scopes handlers the reply rec resumes.
C11_Resumed(rec) ==
    {a \in awaiting :
        /\ a.command = "scopes"
        /\ \E p \in a.waits : /\ p \in DOMAIN promises
                               /\ promises[p].request_id = rec.request_id}

IsPrefix(old, new) ==
    /\ Len(old) <= Len(new)
    /\ \A i \in 1..Len(old) : new[i] = old[i]

\* C11: no callback that leaves the adapter running changes an entry of the
\* reference table or removes one; a stackTrace reply that resumes a scopes
\* request for a frame it lists appends (when the handler goes on) one entry
\* (stack level, scope) per scope of the claim's list, in that order, and
\* answers with the indices of the new entries as handles; for a frame the
\* reply does not list the answer is an error and the table stays as it was.
C11_HandlesStableAndGrowing ==
    /\ \A x \in HandlerRuns : ~x.e.crashed => IsPrefix(var_refs, x.e.var_refs)
    /\ \A rec \in Replies :
          \A a \in C11_Resumed(rec) :
              (Reading /\ ready = <<>> /\ "frames" \in rec.fields)
                 => LET e == runMicrotasks(onVimData(This, rec))
                        found == Matching(rec.frames, a.frameId)
                        codes == C11_Codes(found[1].type)
                        n == Len(var_refs)
                    IN  IF found # <<>>
                        THEN /\ Len(e.var_refs) = n + Len(codes)
                             /\ \A i \in 1..Len(codes) :
                                   e.var_refs[n + i]
                                      = [stack_level |-> a.frameId, scope |-> codes[i]]
                             /\ e.out = <<Response("scopes",
                                                   [i \in 1..Len(codes) |-> n + i - 1])>>
                        ELSE /\ IsError(e.out, "scopes")
                             /\ e.var_refs = var_refs

\* C11 witness: handles were issued before, and the stackTrace reply to a
\* second scopes request, for the function frame 1, appends seven entries.
C11_Witness ==
    /\ Connected /\ ready = <<>>
    /\ Len(var_refs) > 0
    /\ \E rec \in Replies :
          /\ "frames" \in rec.fields
          /\ \E a \in C11_Resumed(rec) :
                /\ a.frameId = 1
                /\ Len(runMicrotasks(onVimData(This, rec)).var_refs)
                      = Len(var_refs) + 7

\* ---------------------------------------------------------------- C12
\* C12 as stated: a variables request for a handle that is no index of the
\* reference table is answered with an error response, writes nothing,
\* registers no pending entry, and ends without an exception.
C12_OutOfRangeIsAnError ==
    \A h \in {Len(var_refs), Len(var_refs) + 1} :
        Connected
           => LET e == variablesRequest(This, h)
              IN  /\ IsError(e.out, "variables")
                  /\ e.written = <<>>
                  /\ e.vim_requests = vim_requests
                  /\ e.next_request_id = next_request_id
                  /\ e.thrown = "none"
                  /\ ~e.crashed

\* ---------------------------------------------------------------- C13
\* The step is the adapter reading a line of the hook on which it emits the
\* stopped notification.
C13_EmitsStopped ==
    /\ Reading
    /\ fromVim # <<>>
    /\ fromVim' = Tail(fromVim)
    /\ LET e == onVimData(This, Head(fromVim))
       IN  \E i \in 1..Len(e.out) : e.out[i] = Event("stopped")

\* C13 as stated: with the hook of nub.vim as the peer, the stopped
\* notification is emitted no earlier than the pause's GetCommand slot opens:
\* the step that emits it leaves a GetCommand slot open, so that a stepping
\* request sent in reaction finds the slot.
C13_StoppedAfterSlotOpens ==
    [][C13_EmitsStopped
          => /\ vim_command_request' # NoRequest
             /\ vim_command_request'.Function = "GetCommand"]_vars

\* ---------------------------------------------------------------- C14
\* C14 as stated: with the hook of nub.vim as the peer, every slot reply the
\* adapter has written and Vim has still to read carries the envelope id of
\* the long-poll the hook is waiting in, never the id of a long-poll it gave
\* up in its timeout-and-retry loop: the command reaches the hook as the
\* answer to its current long-poll.
C14_ReplyAnswersCurrentPoll ==
    \A i \in 1..Len(toVim) :
        toVim[i].Message_type = "Reply"
           => /\ hookPoll # NoRequest
              /\ toVim[i].ref = hookPoll.id
              /\ toVim[i].Function = hookPoll.Function

\* ---------------------------------------------------------------- C15
\* e answers the request name with success after writing one push
\* [ "ex", ... ] and nothing else.
C15_ForcedByPush(e, name) ==
    /\ Len(e.written) = 1
    /\ e.written[1].mode = "ex"
    /\ e.written[1].Message_type = NoString
    /\ IsSuccess(e.out, name)

\* C15 as stated: with the hook connected and no slot open, terminate, and
\* disconnect when it terminates (terminateDebuggee, or Vim was spawned by the
\* adapter), is not rejected: it writes a quit push and answers with success.
C15_TerminateWithoutSlot ==
    (Connected /\ vim_command_request = NoRequest)
       => /\ C15_ForcedByPush(terminateRequest(This), "terminate")
          /\ \A t \in BOOLEAN :
                (t \/ did_start_vim)
                   => C15_ForcedByPush(disconnectRequest(This, t), "disconnect")

\* ---------------------------------------------------------------- C16
\* The promises of the handler a that the reply rec settles.
C16_Settled(a, rec) ==
    {p \in a.waits : p \in DOMAIN promises /\ promises[p].request_id = rec.request_id}

\* C16: setBreakpoints(file, lines) on a connected hook writes one
\* clearLineBreakpoints(file) and then one setLineBreakpoint(file, line) per
\* requested line, under consecutive fresh request ids, and sends nothing to
\* the editor; a reply that leaves one of these requests unanswered sends
\* nothing either, nor does the handler go on; the reply that answers the
\* last of them, whatever it holds, lets the handler go on, and it then sends
\* the response, which lists the requested lines, each verified; nothing but
\* a handler going on after its replies sends a setBreakpoints response.
C16_BreakpointsAnsweredAfterAllReplies ==
    /\ \A f \in Files, ls \in LineLists :
          Connected
             => LET e == setBreakPointsRequest(This, f, ls)
                IN  /\ Len(e.written) = 1 + Len(ls)
                    /\ e.written[1].Function = "clearLineBreakpoints"
                    /\ \A k \in 1..Len(e.written) :
                          /\ e.written[k].Message_type = "Request"
                          /\ e.written[k].file = f
                          /\ e.written[k].request_id = next_request_id + k - 1
                    /\ \A i \in 1..Len(ls) :
                          /\ e.written[1 + i].Function = "setLineBreakpoint"
                          /\ e.written[1 + i].line = ls[i]
                    /\ e.out = <<>>
    /\ \A rec \in Replies :
          \A a \in awaiting :
              (Reading /\ ready = <<>> /\ a.command = "setBreakpoints"
                       /\ C16_Settled(a, rec) # {})
                 => LET e == runMicrotasks(onVimData(This, rec))
                    IN  IF C16_Settled(a, rec) = a.waits
                        THEN e.out = <<[type |-> "response", name |-> "setBreakpoints",
                                        success |-> TRUE, code |-> 0,
                                        body |-> [i \in 1..Len(a.lines) |->
                                                    [verified |-> TRUE,
                                                     line |-> a.lines[i]]]]>>
                        ELSE /\ e.out = <<>>
                             /\ [a EXCEPT !.waits = @ \ C16_Settled(a, rec)]
                                   \in e.awaiting
    /\ \A x \in HandlerRuns :
          \A i \in 1..Len(x.e.out) :
              x.e.out[i].name = "setBreakpoints" => x.op = "microtasks"

\* C16 witness: a setBreakpoints for one line has had the first of its two
\* replies, and the second one brings the response.
C16_Witness ==
    /\ Connected /\ ready = <<>>
    /\ \E a \in awaiting, rec \in Replies :
          /\ a.command = "setBreakpoints"
          /\ Len(a.lines) = 1
          /\ Cardinality(a.waits) = 1
          /\ C16_Settled(a, rec) = a.waits
          /\ IsSuccess(runMicrotasks(onVimData(This, rec)).out, "setBreakpoints")

\* ---------------------------------------------------------------- C17
\* The step is Vim handling a request of the adapter, the next record of its
\* channel.
C17_ReadsRequest ==
    /\ s_Connected /\ Turn # 0
    /\ toVim[Turn].Message_type = "Request"
    /\ toVim' = Without(toVim, Turn)

\* C17 as stated: every request of the adapter that the connected hook reads
\* is answered with exactly one Reply echoing its request_id; the hook sends
\* its reply inside the callback that reads the request, so the step that
\* reads the request puts that one reply on the channel.
C17_EveryRequestAnswered ==
    [][C17_ReadsRequest
          => /\ Len(fromVim') = Len(fromVim) + 1
             /\ fromVim'[Len(fromVim')].Message_type = "Reply"
             /\ fromVim'[Len(fromVim')].request_id = toVim[Turn].request_id
             /\ "request_id" \in fromVim'[Len(fromVim')].fields]_vars

\* ---------------------------------------------------------------- C18
\* C18 as stated: the reference table is recycled when a new pause begins:
\* once the adapter has read the GetCommand long-poll that opens the slot of a
\* new pause (no slot was open), the table is empty.
C18_TableRecycledAtPause ==
    \A rec \in LongPolls :
        (Reading /\ vim_command_request = NoRequest /\ rec.Function = "GetCommand")
           => onVimData(This, rec).var_refs = <<>>

\* ---------------------------------------------------------------- C19
\* The malformed lines of the claim: not JSON, not a pair [ id, payload ], or a
\* Notify or Reply without Arguments.
C19_Malformed ==
    {rec \in PeerRecords :
        \/ rec.form # "ok"
        \/ rec.Message_type \in {"Notify", "Reply"} /\ ~rec.hasArgs}

\* C19 as stated: a malformed line of the hook is dropped: the adapter keeps
\* running, no exception leaves the listener, and the slot, the pending
\* request map, the reference table and the id counter stay as they were.
C19_MalformedIsDropped ==
    \A rec \in C19_Malformed :
        Reading
           => LET e == onVimData(This, rec)
              IN  /\ ~e.crashed
                  /\ e.thrown = "none"
                  /\ e.vim_command_request = vim_command_request
                  /\ e.vim_requests = vim_requests
                  /\ e.var_refs = var_refs
                  /\ e.next_request_id = next_request_id

\* ---------------------------------------------------------------- C20
\* C20: a Reply whose request_id is no key of the pending request map is
\* dropped: no resolve is called, nothing is sent or written, and the map, the
\* pending promises, the suspended handlers and the slot stay as they were; a
\* Reply whose request_id is a key removes that entry, so that the same reply
\* arriving again is dropped in the same way.
C20_UnmatchedReplyDropped ==
    \A rec \in Replies :
        Reading
           => LET e == onVimData(This, rec)
                  again == onVimData(After(e), rec)
              IN  IF rec.request_id \notin DOMAIN vim_requests
                  THEN /\ e.resolveCalls = <<>>
                       /\ e.vim_requests = vim_requests
                       /\ e.promises = promises
                       /\ e.awaiting = awaiting
                       /\ e.vim_command_request = vim_command_request
                       /\ e.out = <<>> /\ e.written = <<>>
                       /\ e.thrown = "none"
                  ELSE /\ Len(e.resolveCalls) = 1
                       /\ rec.request_id \notin DOMAIN e.vim_requests
                       /\ e.vim_command_request = vim_command_request
                       /\ again.resolveCalls = <<>>
                       /\ again.vim_requests = e.vim_requests
                       /\ again.promises = e.promises
                       /\ again.out = <<>>

\* C20 witness: request 0 was sent and answered, request 1 is pending, and a
\* second reply to request 0 arrives.
C20_Witness ==
    /\ Connected
    /\ Len(sentIds) >= 2 /\ sentIds[1].sent
    /\ 0 \notin DOMAIN vim_requests
    /\ 1 \in DOMAIN vim_requests
    /\ onVimData(This, VimRecord("ok", 1, "Reply", "Other", TRUE, 0,
                                 {"request_id"}, <<>>)).vim_requests = vim_requests

\* ---------------------------------------------------------------- C21
\* e turns the request name away: one error response and nothing written.
C21_TurnedAway(e, name) == IsError(e.out, name) /\ e.written = <<>>

\* C21 as stated: every disconnection is signalled once.  Whichever way a
\* connection ends, the step in which the adapter takes note of it emits one
\* terminated notification, forgets the connection and drops the slot; no
\* other callback emits the notification; and after the disconnection, until
\* a hook connects again, every stepping request and configurationDone is
\* answered with an error and writes nothing.
C21_DisconnectionSignalledOnce ==
    /\ ~crashed
          => \A port \in connections :
                \A e \in ConnectionEnd(This, port) :
                   /\ e.out = <<Event("terminated")>>
                   /\ e.vim_command_request = NoRequest
                   /\ e.vim = NoSocket
                   /\ e.written = <<>>
                   /\ \A name \in SteppingCommands :
                         C21_TurnedAway(steppingRequest(After(e), name), name)
                   /\ C21_TurnedAway(configurationDoneRequest(After(e)),
                                     "configurationDone")
    /\ \A x \in HandlerRuns :
          \A i \in 1..Len(x.e.out) :
              x.e.out[i] = Event("terminated") => x.op = "close"
    /\ (vim = NoSocket /\ ~crashed)
          => /\ \A name \in SteppingCommands :
                   C21_TurnedAway(steppingRequest(This, name), name)
             /\ C21_TurnedAway(configurationDoneRequest(This), "configurationDone")

\* ---------------------------------------------------------------- C22
\* The requests of the claim that write to the socket, run in this state.
C22_Writers ==
    {pauseRequest(This), stackTraceRequest(This)}
    \cup {setBreakPointsRequest(This, f, ls) : f \in Files, ls \in LineLists}
    \cup {scopesRequest(This, f) : f \in FrameIds}
    \cup {variablesRequest(This, h - 1) : h \in DOMAIN var_refs}
    \cup {evaluateRequest(This, repl, f) : repl \in BOOLEAN, f \in FrameIds}
    \cup {disconnectRequest(This, t) : t \in {b \in BOOLEAN : b \/ did_start_vim}}

\* C22 as stated: while no hook connection exists, a request that would write
\* is turned away or put off without touching the absent connection: no
\* exception is thrown in the handler, nothing is written, and the adapter
\* keeps running.
C22_NoWriteWithoutConnection ==
    (vim = NoSocket /\ ~crashed)
       => \A e \in C22_Writers :
             /\ e.thrown = "none"
             /\ e.written = <<>>
             /\ ~e.crashed

\* ---------------------------------------------------------------- C23
\* The requests of the editor among the callbacks (the response to launch is
\* sent by the runInTerminal callback).
C23_Requests ==
    {x \in HandlerRuns :
        x.op \notin {"onVimData", "connection", "close", "runInTerminal", "launch",
                     "microtasks"}}

\* The responses to the request name among the messages o.
C23_Responses(o, name) ==
    {i \in 1..Len(o) : o[i].type = "response" /\ o[i].name = name}

\* C23 as stated: every request of the editor is answered: its handler
\* either sends exactly one response, or sends none and leaves itself
\* suspended on a pending request whose reply will bring the response;
\* disconnect among them, spawned or attached, with or without
\* terminateDebuggee, whatever the slot holds.
C23_EveryRequestGetsAResponse ==
    Connected
       => \A x \in C23_Requests :
             \/ /\ Cardinality(C23_Responses(x.e.out, x.op)) = 1
                /\ x.e.awaiting = awaiting
             \/ /\ C23_Responses(x.e.out, x.op) = {}
                /\ \E a \in x.e.awaiting \ awaiting :
                      a.command = x.op /\ a.waits # {}

====
